---- MODULE Spec2Model ----
(***************************************************************************)
(* A model of subsurface's Curve (curve.py) and Seismic (seismic.py): two  *)
(* thin wrappers around a labelled array (xarray.DataArray over a numpy    *)
(* buffer).                                                                *)
(*                                                                         *)
(* Numbers.  Depths (basis values, start, stop, step) are integers in      *)
(* units of 1e-4, so that the default step 0.1524 is 1524.  Curve samples  *)
(* are records: NaN, or Num(x) with x in units of 1e-2, so that the        *)
(* default null sentinel -999.25 is -99925.                                *)
(*                                                                         *)
(* Memory.  numpy basic indexing (slices, integers) returns a view of the  *)
(* parent's buffer; xarray's constructor does not copy its input either.   *)
(* A labelled array is therefore modelled as a window (off, n) onto the    *)
(* one buffer cbuf; the caller keeps the current Curve (cur) and the Curve *)
(* it was sliced from (par).                                               *)
(***************************************************************************)
EXTENDS Integers, Sequences, FiniteSets, TLC

\* longest data or basis array the caller supplies
MaxLen == 3

VARIABLES cbuf, cur, par, clast, warned, sbuf, scur, spar, slast

cvars == <<cbuf, cur, par, clast, warned>>
svars == <<sbuf, scur, spar, slast>>
vars == <<cbuf, cur, par, clast, warned, sbuf, scur, spar, slast>>

-----------------------------------------------------------------------------
(* Values *)

None == "None"
NaN == [nan |-> TRUE, v |-> 0]
Num(x) == [nan |-> FALSE, v |-> x]

\* -999.25, the default of params['null'] and of from_lasio's null
NullDefault == -99925
\* 0.1524, the default step of from_lasio
StepDefault == 1524
\* 1.0 in depth units (numpy's step when arange is given step=None)
DepthOne == 10000
DomainDefault == "MD"
MnemonicDefault == "CURVE"

Abs(x) == IF x < 0 THEN -x ELSE x
Max2(a, b) == IF a >= b THEN a ELSE b
Min2(a, b) == IF a <= b THEN a ELSE b

RECURSIVE SeqSum(_)
SeqSum(s) == IF s = <<>> THEN 0 ELSE Head(s) + SeqSum(Tail(s))

RECURSIVE SeqMin(_)
SeqMin(s) == IF Len(s) = 1 THEN s[1] ELSE Min2(s[1], SeqMin(Tail(s)))

RECURSIVE SeqMax(_)
SeqMax(s) == IF Len(s) = 1 THEN s[1] ELSE Max2(s[1], SeqMax(Tail(s)))

\* the elements of s whose flag in mask is TRUE, in order (numpy boolean indexing)
RECURSIVE Compress(_, _)
Compress(s, mask) ==
    IF s = <<>> THEN <<>>
    ELSE (IF Head(mask) THEN <<Head(s)>> ELSE <<>>) \o Compress(Tail(s), Tail(mask))

-----------------------------------------------------------------------------
(* params: a dict or None.  keys are the keys present; d holds their values *)

ParamDefaults ==
    [units |-> None, run |-> 0, null |-> NullDefault,
     service_company |-> None, date |-> None, code |-> None]

NoParams == [given |-> FALSE, keys |-> {}, d |-> ParamDefaults]
Dict(keys, d) == [given |-> TRUE, keys |-> keys, d |-> d]

\* params.get(k, default)
ParamsGet(params, k, default) == IF k \in params.keys THEN params.d[k] ELSE default

-----------------------------------------------------------------------------
(* xarray.DataArray(data, coords=..., dims=...): the size checks of its     *)
(* constructor.  shape is the data's shape, coordArrays one array per      *)
(* entry of coords, dims the dimension names.                              *)

DataArrayLax(shape, coordArrays, dims) == "none"

\* a constructor that checks the size of the first axis only
DataArrayFirstAxis(shape, coordArrays, dims) ==
    IF Len(coordArrays) # Len(shape) THEN "ValueError"
    ELSE IF Len(dims) # Len(shape) THEN "ValueError"
    ELSE IF Len(shape) > 0 /\ Len(coordArrays[1]) # shape[1] THEN "ValueError"
    ELSE "none"

DataArrayCheck(shape, coordArrays, dims) ==
    IF Len(coordArrays) # Len(shape) THEN "ValueError"
    ELSE IF Len(dims) # Len(shape) THEN "ValueError"
    ELSE IF \E k \in 1..Len(shape) : Len(coordArrays[k]) # shape[k] THEN "ValueError"
    ELSE "none"

\* np.atleast_2d(basis) of a 1-D basis: one row
AtLeast2d(basis) == <<basis>>

-----------------------------------------------------------------------------
(* Curve *)

NoCurve == <<>>

\* Curve.__init__
CurveNew(data, basis, domain, mnemonic, params) ==
    IF ~params.given THEN [err |-> "AttributeError", obj |-> NoCurve]
    ELSE LET meta == [domain |-> domain,
                      units |-> ParamsGet(params, "units", None),
                      run |-> ParamsGet(params, "run", 0),
                      null |-> ParamsGet(params, "null", NullDefault),
                      service_company |-> ParamsGet(params, "service_company", None),
                      date |-> ParamsGet(params, "date", None),
                      code |-> ParamsGet(params, "code", None)]
             e == DataArrayCheck(<<Len(data)>>, AtLeast2d(basis), <<domain>>)
         IN IF e # "none" THEN [err |-> e, obj |-> NoCurve]
            ELSE [err |-> "none",
                  obj |-> <<[meta |-> meta,
                             xa |-> [name |-> mnemonic, dims |-> <<domain>>,
                                     off |-> 0, n |-> Len(data),
                                     coords |-> [dd \in {domain} |-> basis]]]>>]

\* the samples a Curve's labelled array shows: its window of the buffer
ValuesOf(buf, o) == SubSeq(buf, o.xa.off + 1, o.xa.off + o.xa.n)
Values(o) == ValuesOf(cbuf, o)

\* Curve.mnemonic, basis, start, stop
Mnemonic(o) == o.xa.name
Basis(o) == o.xa.coords[o.meta.domain]
Start(o) == Basis(o)[1]
Stop(o) == Basis(o)[Len(Basis(o))]

\* np.diff
Diff(arr) == [k \in 1..(Len(arr) - 1) |-> arr[k + 1] - arr[k]]

\* np.isclose(a, b): |a - b| <= atol + rtol * |b|, atol = 1e-8, rtol = 1e-5,
\* on depths in units of 1e-4
IsClose(a, b) == 100000 * Abs(a - b) <= 10 + Abs(b)

\* np.allclose(diffs[0], diffs)
AllClose(d0, diffs) == \A k \in 1..Len(diffs) : IsClose(d0, diffs[k])

\* get_step returning the span of the array instead of its first difference
GetStepSpan(arr) ==
    LET diffs == Diff(arr)
    IN IF Len(diffs) = 0 THEN [err |-> "IndexError", step |-> <<>>]
       ELSE IF AllClose(diffs[1], diffs)
            THEN [err |-> "none", step |-> <<arr[Len(arr)] - arr[1]>>]
       ELSE [err |-> "CurveError", step |-> <<>>]

\* Curve.get_step: [err, step]; diffs[0] of an empty diffs is an IndexError
GetStep(arr) ==
    LET diffs == Diff(arr)
    IN IF Len(diffs) = 0 THEN [err |-> "IndexError", step |-> <<>>]
       ELSE IF AllClose(diffs[1], diffs) THEN [err |-> "none", step |-> <<diffs[1]>>]
       ELSE [err |-> "CurveError", step |-> <<>>]

\* Curve.step: None (<<>>) when get_step raises CurveError
Step(o) ==
    LET r == GetStep(Basis(o))
    IN IF r.err = "CurveError" THEN [err |-> "none", step |-> <<>>] ELSE r

------------------------------------------------------------------------

\* slice.indices(n) for a slice i:j of step 1: the first position and the count
SliceLo(i, n) == IF i < 0 THEN Max2(i + n, 0) ELSE Min2(i, n)
SliceCount(i, j, n) == Max2(SliceLo(j, n) - SliceLo(i, n), 0)

\* xarray.DataArray.__getitem__(slice(i, j)): data and coordinate are both
\* indexed at the same positions; the data is a view of the same buffer
XGetitemUnaligned(xa, i, j) ==
    [xa EXCEPT !.off = xa.off + SliceLo(i, xa.n),
               !.n = SliceCount(i, j, xa.n)]

XGetitem(xa, i, j) ==
    LET lo == SliceLo(i, xa.n)
        cnt == SliceCount(i, j, xa.n)
    IN [xa EXCEPT !.off = xa.off + lo,
                  !.n = cnt,
                  !.coords = [dd \in DOMAIN xa.coords |->
                                 SubSeq(xa.coords[dd], lo + 1, lo + cnt)]]

\* Curve.__copy__: a new object with the same attribute bindings
Copy(o) == [meta |-> o.meta, xa |-> o.xa]

\* Curve.__getitem__(slice(i, j))
Getitem(o, i, j) == [Copy(o) EXCEPT !.xa = XGetitem(o.xa, i, j)]

\* np.isnan(self): the mask of NaN positions
IsNanMask(vals) == [k \in 1..Len(vals) |-> vals[k].nan]

\* self[mask].shape[0]: boolean indexing keeps the flagged positions (a copy)
MaskedCount(vals, mask) == Len(Compress(vals, mask))

\* the numbers of the non-NaN samples
Finite(vals) ==
    LET kept == Compress(vals, [k \in 1..Len(vals) |-> ~vals[k].nan])
    IN [k \in 1..Len(kept) |-> kept[k].v]

NoStats ==
    [samples |-> 0, nulls |-> 0, mean |-> [nan |-> TRUE, num |-> 0, den |-> 1],
     min |-> NaN, max |-> NaN]

\* Curve.describe: [err, stats].  np.nanmin of an empty array raises
\* ValueError; of an all-NaN array the three statistics are NaN.  The mean is
\* the exact quotient num / den.
DescribeCountsNull(vals, null) ==
    LET fin == Finite(vals)
    IN IF Len(vals) = 0 THEN [err |-> "ValueError", stats |-> NoStats]
       ELSE [err |-> "none",
             stats |-> [samples |-> Len(vals),
                        nulls |-> Len(SelectSeq(vals, LAMBDA x : x.nan \/ x.v = null)),
                        mean |-> IF fin = <<>> THEN NoStats.mean
                                 ELSE [nan |-> FALSE, num |-> SeqSum(fin), den |-> Len(fin)],
                        min |-> IF fin = <<>> THEN NaN ELSE Num(SeqMin(fin)),
                        max |-> IF fin = <<>> THEN NaN ELSE Num(SeqMax(fin))]]

DescribeOf(vals, null) ==
    LET fin == Finite(vals)
    IN IF Len(vals) = 0 THEN [err |-> "ValueError", stats |-> NoStats]
       ELSE [err |-> "none",
             stats |-> [samples |-> Len(vals),
                        nulls |-> MaskedCount(vals, IsNanMask(vals)),
                        mean |-> IF fin = <<>> THEN NoStats.mean
                                 ELSE [nan |-> FALSE, num |-> SeqSum(fin), den |-> Len(fin)],
                        min |-> IF fin = <<>> THEN NaN ELSE Num(SeqMin(fin)),
                        max |-> IF fin = <<>> THEN NaN ELSE Num(SeqMax(fin))]]

-----------------------------------------------------------------------------
(* from_lasio *)

\* ceil(a / b) for b > 0
CeilDiv(a, b) == -((-a) \div b)

\* n samples from start in steps of step
Linspace0(start, n, step) == [k \in 1..n |-> start + (k - 1) * step]

\* np.arange(start, stop, step), step # 0
Arange(start, stop, step) ==
    LET cnt == IF step > 0 THEN CeilDiv(stop - start, step)
               ELSE CeilDiv(start - stop, -step)
    IN [k \in 1..Max2(cnt, 0) |-> start + (k - 1) * step]

\* from_lasio regenerating an irregular basis from its first difference
LasioBasisResampled(basis, start, stop, step) ==
    IF basis = <<>>
    THEN IF start # <<>> /\ stop # <<>>
         THEN LET st == IF step = <<>> THEN DepthOne ELSE step[1]
              IN IF st = 0 THEN [err |-> "ZeroDivisionError", basis |-> <<>>]
                 ELSE [err |-> "none", basis |-> Arange(start[1], stop[1], st)]
         ELSE [err |-> "CurveError", basis |-> <<>>]
    ELSE IF Len(basis[1]) = 0 \/ GetStep(basis[1]).err = "IndexError"
         THEN [err |-> "IndexError", basis |-> <<>>]
         ELSE IF GetStep(basis[1]).err = "CurveError"
              THEN [err |-> "none",
                    basis |-> Linspace0(basis[1][1], Len(basis[1]), Diff(basis[1])[1])]
              ELSE [err |-> "none", basis |-> basis[1]]

\* the basis from_lasio hands to Curve: [err, basis].  An absent argument is
\* <<>>, a given one <<value>>.  basis[0] of an empty array and diffs[0] of a
\* one-sample array raise IndexError, which is not caught.
LasioBasis(basis, start, stop, step) ==
    IF basis = <<>>
    THEN IF start # <<>> /\ stop # <<>>
         THEN LET st == IF step = <<>> THEN DepthOne ELSE step[1]
              IN IF st = 0 THEN [err |-> "ZeroDivisionError", basis |-> <<>>]
                 ELSE [err |-> "none", basis |-> Arange(start[1], stop[1], st)]
         ELSE [err |-> "CurveError", basis |-> <<>>]
    ELSE IF Len(basis[1]) = 0 \/ GetStep(basis[1]).err = "IndexError"
         THEN [err |-> "IndexError", basis |-> <<>>]
         ELSE [err |-> "none", basis |-> basis[1]]

\* from_lasio(curve, basis, start, stop, step, run, null, service_company, date)
FromLasioOf(rec, basis, start, stop, step, run, null, service_company, date) ==
    LET b == LasioBasis(basis, start, stop, step)
        params == Dict({"description", "units", "run", "null",
                        "service_company", "date", "code"},
                       [description |-> rec.descr, units |-> rec.unit, run |-> run,
                        null |-> null, service_company |-> service_company,
                        date |-> date, code |-> rec.API_code])
    IN IF b.err # "none" THEN [err |-> b.err, obj |-> NoCurve]
       ELSE CurveNew(rec.data, b.basis, DomainDefault, rec.mnemonic, params)

-----------------------------------------------------------------------------
(* What the caller may pass *)

Ramp(n) == [k \in 1..n |-> IF k = 2 THEN Num(NullDefault) ELSE Num(100 * k)]
DataInputs == {Ramp(n) : n \in 0..MaxLen}

\* np.linspace-like regular bases, as in test_curve: 0, step, 2*step, ...
Linspace(n, step) == [k \in 1..n |-> (k - 1) * step]
LinspaceInputs == {Linspace(n, StepDefault) : n \in 0..MaxLen}

\* Linspace(n, step) with its last sample moved by shift
Displaced(n, step, shift) ==
    [k \in 1..n |-> (k - 1) * step + (IF k = n /\ n > 1 THEN shift ELSE 0)]

\* explicit coordinate arrays: regular, irregular, and unequal within
\* np.allclose's tolerance (steps of 20.0 and 20.0001)
BasisInputs ==
    {Displaced(n, ss[1], ss[2]) :
        n \in 0..MaxLen,
        ss \in {<<StepDefault, 0>>, <<StepDefault, StepDefault>>, <<200000, 1>>}}

CallStyles ==
    {<<DomainDefault, MnemonicDefault, NoParams>>,
     <<DomainDefault, MnemonicDefault, Dict({}, ParamDefaults)>>,
     <<"TWT", "GR", Dict({"units", "run", "null"},
                         [ParamDefaults EXCEPT !.units = "gAPI", !.run = 2, !.null = 300])>>}

\* a lasio CurveItem with n samples
LasRecord(n) ==
    [data |-> Ramp(n), descr |-> "Gamma ray", unit |-> "gAPI", mnemonic |-> "GR",
     API_code |-> "310"]

SliceBounds == -1..MaxLen

NoSnap == [cur |-> <<>>, par |-> <<>>]

NoLast ==
    [op |-> "none", err |-> "none", nd |-> 0, nb |-> 0, pgiven |-> FALSE,
     domain |-> None, mnemonic |-> None, who |-> None, i |-> 0, j |-> 0,
     basis |-> <<>>, start |-> <<>>, stop |-> <<>>, step |-> <<>>,
     pre |-> NoSnap, ret |-> <<>>, stats |-> NoStats]

\* an object as the caller can observe it: its attributes and its samples
Snap(o) == [obj |-> o, values |-> Values(o)]
SnapAll == [cur |-> [k \in DOMAIN cur |-> Snap(cur[k])],
            par |-> [k \in DOMAIN par |-> Snap(par[k])]]

-----------------------------------------------------------------------------
(* Actions: Curve.  One behaviour follows one constructed Curve and the     *)
(* Curves sliced from it: a constructor call is made while the caller holds *)
(* none (a failed call returns none and may be repeated).                   *)

\* c = Curve(data, basis, domain, mnemonic, params)
CurveInit(data, basis, domain, mnemonic, params) ==
    LET r == CurveNew(data, basis, domain, mnemonic, params)
    IN /\ cur = NoCurve
       /\ IF r.err = "none"
          THEN cbuf' = data /\ cur' = r.obj
          ELSE UNCHANGED <<cbuf, cur>>
       /\ clast' = [NoLast EXCEPT !.op = "init", !.err = r.err,
                                  !.nd = Len(data), !.nb = Len(basis),
                                  !.pgiven = params.given, !.domain = domain,
                                  !.mnemonic = mnemonic, !.ret = r.obj]
       /\ UNCHANGED <<par, warned>>
       /\ UNCHANGED svars

\* c = from_lasio(record, basis=..., start=..., stop=..., step=...)
FromLasio(rec, basis, start, stop, step) ==
    LET r == FromLasioOf(rec, basis, start, stop, step, -1, NullDefault, None, None)
    IN /\ cur = NoCurve
       /\ IF r.err = "none"
          THEN cbuf' = rec.data /\ cur' = r.obj
          ELSE UNCHANGED <<cbuf, cur>>
       /\ clast' = [NoLast EXCEPT !.op = "from_lasio", !.err = r.err,
                                  !.nd = Len(rec.data),
                                  !.nb = IF basis = <<>> THEN 0 ELSE Len(basis[1]),
                                  !.pgiven = TRUE, !.domain = DomainDefault,
                                  !.mnemonic = rec.mnemonic, !.basis = basis,
                                  !.start = start, !.stop = stop, !.step = step,
                                  !.ret = r.obj]
       /\ UNCHANGED <<par, warned>>
       /\ UNCHANGED svars

\* p, c = c, c[i:j]
CurveGetitem(i, j) ==
    /\ cur # NoCurve
    /\ par' = cur
    /\ cur' = <<Getitem(cur[1], i, j)>>
    /\ clast' = [NoLast EXCEPT !.op = "getitem", !.i = i, !.j = j,
                               !.pre = [NoSnap EXCEPT !.par = <<Snap(cur[1])>>]]
    /\ UNCHANGED <<cbuf, warned>>
    /\ UNCHANGED svars

\* c.describe() or p.describe()
Describe(who) ==
    LET o == IF who = "cur" THEN cur ELSE par
    IN /\ o # NoCurve
       /\ LET r == DescribeOf(Values(o[1]), o[1].meta.null)
          IN clast' = [NoLast EXCEPT !.op = "describe", !.who = who, !.err = r.err,
                                     !.stats = r.stats, !.pre = SnapAll]
       /\ UNCHANGED <<cbuf, cur, par, warned>>
       /\ UNCHANGED svars

\* c.values[pos] = nan or p.values[pos] = nan: the attribute pass-through
\* hands the caller the labelled array's buffer
CurveWrite(who, pos) ==
    LET o == IF who = "cur" THEN cur ELSE par
    IN /\ o # NoCurve
       /\ pos < o[1].xa.n
       /\ cbuf' = [cbuf EXCEPT ![o[1].xa.off + pos + 1] = NaN]
       /\ clast' = [NoLast EXCEPT !.op = "write", !.who = who, !.i = pos,
                                  !.pre = SnapAll]
       /\ UNCHANGED <<cur, par, warned>>
       /\ UNCHANGED svars

-----------------------------------------------------------------------------
(* Seismic.  The data is a window onto the cube buffer sbuf of shape base:  *)
(* ax holds, per axis of the buffer, the first position lo shown and the    *)
(* count n, or for an axis indexed by an integer (int) the position lo.     *)
(* cs holds the coordinate of each axis: its name and values; the           *)
(* coordinate of an axis indexed by an integer stays as a scalar one.       *)

\* longest axis of a cube (the samples axis)
MaxSamples == 3

NoSeismic == <<>>

\* a unit tag: a plain string, or a unit of the registry
Str(name) == [kind |-> "str", name |-> name]
Reg(name) == [kind |-> "registry", name |-> name]
\* the default of Seismic.__init__'s units
UnitsDefault == Str("dimensionless")

RECURSIVE Prod(_)
Prod(s) == IF s = <<>> THEN 1 ELSE Head(s) * Prod(Tail(s))

RECURSIVE Flatten(_)
Flatten(rows) == IF rows = <<>> THEN <<>> ELSE Head(rows) \o Flatten(Tail(rows))

\* the dimensions (positions in ax) that are still axes of the array
DimsOf(xa) == SelectSeq([k \in 1..Len(xa.ax) |-> k], LAMBDA k : ~xa.ax[k].int)
Shape(xa) == [d \in 1..Len(DimsOf(xa)) |-> xa.ax[DimsOf(xa)[d]].n]
\* the dimension coordinates, in order: name and values
DimCoords(xa) ==
    SelectSeq(xa.cs, LAMBDA c : ~c.scalar)

\* xr.DataArray(data, coords=[(name, values), ...]) as Seismic.__init__ calls it
SeismicArray(shape, coords) ==
    DataArrayCheck(shape, [k \in 1..Len(coords) |-> coords[k].vals],
                   [k \in 1..Len(coords) |-> coords[k].name])

\* Seismic.__init__(data, units, coords=coords); the array has no attrs, so
\* attrs.get('units', units) is units
SeismicNew(shape, coords, units) ==
    LET e == SeismicArray(shape, coords)
    IN IF e # "none" THEN [err |-> e, obj |-> NoSeismic]
       ELSE [err |-> "none",
             obj |-> <<[units |-> units,
                        xa |-> [base |-> shape,
                                ax |-> [k \in 1..Len(shape) |->
                                           [int |-> FALSE, lo |-> 0, n |-> shape[k]]],
                                cs |-> [k \in 1..Len(shape) |->
                                           [name |-> coords[k].name,
                                            vals |-> coords[k].vals,
                                            scalar |-> FALSE]]]]>>]

\* the buffer offsets (row-major, from 0) shown by axes k.. of a window
RECURSIVE Cells(_, _, _)
Cells(base, ax, k) ==
    IF k > Len(ax) THEN <<0>>
    ELSE LET rest == Cells(base, ax, k + 1)
             stride == Prod(SubSeq(base, k + 1, Len(base)))
         IN Flatten([r \in 1..ax[k].n |->
                        [c \in 1..Len(rest) |-> (ax[k].lo + r - 1) * stride + rest[c]]])

\* the values a Seismic shows, in row-major order
SValuesOf(buf, o) ==
    LET cells == Cells(o.xa.base, o.xa.ax, 1)
    IN [k \in 1..Len(cells) |-> buf[cells[k] + 1]]
SValues(o) == SValuesOf(sbuf, o)

\* selectors: an integer index, or a slice i:j
Idx(k) == [int |-> TRUE, i |-> k, j |-> 0]
Slice(i, j) == [int |-> FALSE, i |-> i, j |-> j]

\* indexing one axis (window a, coordinate c) by one selector
AxisGetitem(a, sel) ==
    IF sel.int
    THEN [int |-> TRUE, lo |-> a.lo + (IF sel.i < 0 THEN sel.i + a.n ELSE sel.i), n |-> 1]
    ELSE [int |-> FALSE, lo |-> a.lo + SliceLo(sel.i, a.n), n |-> SliceCount(sel.i, sel.j, a.n)]

CoordGetitemKeepsAll(c, sel) ==
    IF sel.int THEN [c EXCEPT !.scalar = TRUE] ELSE c

CoordGetitem(c, sel) ==
    IF sel.int
    THEN [c EXCEPT !.vals = <<c.vals[(IF sel.i < 0 THEN sel.i + Len(c.vals) ELSE sel.i) + 1]>>,
                   !.scalar = TRUE]
    ELSE LET lo == SliceLo(sel.i, Len(c.vals))
         IN [c EXCEPT !.vals = SubSeq(c.vals, lo + 1, lo + SliceCount(sel.i, sel.j, Len(c.vals)))]

\* xarray.DataArray.__getitem__(item) for a tuple of selectors, one per
\* leading dimension (the others are taken whole): [err, xa]
SXGetitem(xa, item) ==
    LET dims == DimsOf(xa)
        bad == \E d \in 1..Len(item) :
                  /\ item[d].int
                  /\ d <= Len(dims)
                  /\ LET n == xa.ax[dims[d]].n
                     IN item[d].i >= n \/ item[d].i < -n
        selAt(k) == LET d == CHOOSE d \in 1..Len(dims) : dims[d] = k IN item[d]
        picked(k) == \E d \in 1..Len(dims) : dims[d] = k /\ d <= Len(item)
    IN IF Len(item) > Len(dims) \/ bad THEN [err |-> "IndexError", xa |-> xa]
       ELSE [err |-> "none",
             xa |-> [xa EXCEPT
                       !.ax = [k \in 1..Len(xa.ax) |->
                                  IF picked(k) THEN AxisGetitem(xa.ax[k], selAt(k))
                                  ELSE xa.ax[k]],
                       !.cs = [k \in 1..Len(xa.cs) |->
                                  IF picked(k) THEN CoordGetitem(xa.cs[k], selAt(k))
                                  ELSE xa.cs[k]]]]

\* Seismic.__copy__
SCopy(o) == [units |-> o.units, xa |-> o.xa]

\* Seismic.__getitem__: [err, obj]
SGetitem(o, item) ==
    LET arr == SCopy(o)
        r == SXGetitem(arr.xa, item)
    IN IF r.err # "none" THEN [err |-> r.err, obj |-> NoSeismic]
       ELSE [err |-> "none", obj |-> <<[arr EXCEPT !.xa = r.xa]>>]

\* the units registry's unit.to(target): the unit named by target, when the
\* two measure the same thing
RegistryTo(u, target) ==
    IF target.name = "dimensionless"
    THEN [err |-> "DimensionalityError", units |-> u]
    ELSE [err |-> "none", units |-> Reg(target.name)]

\* self._units.to(units): a plain string has no method to
UnitsTo(u, target) ==
    IF u.kind = "str" THEN [err |-> "AttributeError", units |-> u]
    ELSE RegistryTo(u, target)

\* Seismic.set_units
SetUnitsOf(o, u) == [o EXCEPT !.units = u]

\* Seismic.convert_units: [err, obj]
ConvertUnitsOf(o, u) ==
    LET r == UnitsTo(o.units, u)
    IN [err |-> r.err, obj |-> [o EXCEPT !.units = r.units]]

-----------------------------------------------------------------------------
(* What the caller may pass: Seismic *)

CubeShape == <<2, 2, MaxSamples>>
AxisNames == <<"x", "y", "z">>
\* a cube whose values are their own positions in the buffer
CubeData(shape) == [f \in 1..Prod(shape) |-> f]
\* np.arange(n) as a coordinate
Coord(name, n) == [name |-> name, vals |-> [k \in 1..n |-> k - 1]]

CoordsInputs ==
    {[k \in 1..3 |-> Coord(AxisNames[k], CubeShape[k] - short[k])] :
        short \in {<<0, 0, 0>>, <<0, 0, 1>>, <<0, 1, 0>>, <<1, 0, 0>>, <<1, 0, 1>>}}
    \cup {<<Coord("x", 2), Coord("y", 2)>>}

UnitsInputs == {UnitsDefault, Reg("km/s")}

\* selectors for the samples axis: everything, a position, the last position
\* counted from the end, one past the end, and a range
SelInputs(n) == {Slice(0, n), Idx(1), Idx(-1), Idx(n), Slice(1, n)}

ItemInputs ==
    {<<a, b, c>> : a \in {Slice(0, 2), Idx(0)}, b \in {Slice(0, 2), Idx(1)},
                   c \in SelInputs(MaxSamples)}
    \cup {<<Idx(0)>>}

NoSLast ==
    [op |-> "none", err |-> "none", who |-> None, u |-> UnitsDefault,
     afterSet |-> FALSE, item |-> <<>>, lens |-> <<>>, pre |-> NoSnap, ret |-> <<>>]

SSnap(o) == [obj |-> o, values |-> SValues(o)]
SSnapAll == [cur |-> [k \in DOMAIN scur |-> SSnap(scur[k])],
             par |-> [k \in DOMAIN spar |-> SSnap(spar[k])]]

-----------------------------------------------------------------------------
(* Actions: Seismic.  One behaviour follows one constructed Seismic and the *)
(* Seismics sliced from it.                                                 *)

\* s = Seismic(cube, coords=coords, units=units)
SeismicInit(shape, coords, units) ==
    LET r == SeismicNew(shape, coords, units)
    IN /\ scur = NoSeismic
       /\ IF r.err = "none"
          THEN sbuf' = CubeData(shape) /\ scur' = r.obj
          ELSE UNCHANGED <<sbuf, scur>>
       /\ slast' = [NoSLast EXCEPT !.op = "init", !.err = r.err, !.u = units,
                                   !.lens = [k \in 1..Len(coords) |-> Len(coords[k].vals)],
                                   !.ret = r.obj]
       /\ UNCHANGED spar
       /\ UNCHANGED cvars

\* p, s = s, s[item]
SeismicGetitem(item) ==
    /\ scur # NoSeismic
    /\ LET r == SGetitem(scur[1], item)
       IN /\ IF r.err = "none"
             THEN spar' = scur /\ scur' = r.obj
             ELSE UNCHANGED <<spar, scur>>
          /\ slast' = [NoSLast EXCEPT !.op = "getitem", !.err = r.err, !.item = item,
                                      !.pre = [NoSnap EXCEPT !.par = <<SSnap(scur[1])>>],
                                      !.ret = r.obj]
    /\ UNCHANGED sbuf
    /\ UNCHANGED cvars

\* s.set_units(u)
SetUnits(u) ==
    /\ scur # NoSeismic
    /\ scur' = <<SetUnitsOf(scur[1], u)>>
    /\ slast' = [NoSLast EXCEPT !.op = "set_units", !.who = "cur", !.u = u,
                                !.pre = SSnapAll]
    /\ UNCHANGED <<sbuf, spar>>
    /\ UNCHANGED cvars

\* s.convert_units(u); afterSet records that it follows s.set_units(u)
ConvertUnits(u) ==
    /\ scur # NoSeismic
    /\ LET r == ConvertUnitsOf(scur[1], u)
       IN /\ IF r.err # "none" THEN UNCHANGED scur ELSE scur' = <<r.obj>>
          /\ slast' = [NoSLast EXCEPT !.op = "convert_units", !.who = "cur", !.u = u,
                                      !.err = r.err,
                                      !.afterSet = (slast.op = "set_units" /\ slast.u = u),
                                      !.pre = SSnapAll]
    /\ UNCHANGED <<sbuf, spar>>
    /\ UNCHANGED cvars

\* s.values[0, ..., 0] = 0 or p.values[0, ..., 0] = 0: the attribute
\* pass-through hands the caller the labelled array's buffer (the first
\* write to a cube)
SeismicWrite(who) ==
    LET o == IF who = "cur" THEN scur ELSE spar
    IN /\ o # NoSeismic
       /\ Prod(Shape(o[1].xa)) > 0
       /\ sbuf = CubeData(o[1].xa.base)
       /\ sbuf' = [sbuf EXCEPT ![Cells(o[1].xa.base, o[1].xa.ax, 1)[1] + 1] = 0]
       /\ slast' = [NoSLast EXCEPT !.op = "write", !.who = who, !.pre = SSnapAll]
       /\ UNCHANGED <<scur, spar>>
       /\ UNCHANGED cvars

CInit ==
    /\ cbuf = <<>>
    /\ cur = NoCurve
    /\ par = NoCurve
    /\ clast = NoLast
    /\ warned = 0

SInit ==
    /\ sbuf = <<>>
    /\ scur = <<>>
    /\ spar = <<>>
    /\ slast = NoSLast

Init == CInit /\ SInit

NextCurve ==
    \/ \E data \in DataInputs, basis \in LinspaceInputs, style \in CallStyles :
            CurveInit(data, basis, style[1], style[2], style[3])
    \/ \E n \in 0..MaxLen, basis \in BasisInputs : FromLasio(LasRecord(n), <<basis>>, <<>>, <<>>, <<StepDefault>>)
    \/ \E n \in 0..MaxLen, start \in {<<>>, <<0>>},
          stop \in {<<>>, <<2 * StepDefault>>, <<2 * DepthOne>>},
          step \in {<<>>, <<0>>, <<StepDefault>>} :
            FromLasio(LasRecord(n), <<>>, start, stop, step)
    \/ \E i \in SliceBounds, j \in SliceBounds : CurveGetitem(i, j)
    \/ \E who \in {"cur", "par"} : Describe(who)
    \/ \E who \in {"cur", "par"}, pos \in 0..(MaxLen - 1) : CurveWrite(who, pos)

SpecCurve == Init /\ [][NextCurve]_vars

NextSeismic ==
    \/ \E coords \in CoordsInputs, units \in {UnitsDefault, Reg("km/s")} :
            SeismicInit(CubeShape, coords, units)
    \/ \E item \in ItemInputs : SeismicGetitem(item)
    \/ \E u \in UnitsInputs : SetUnits(u)
    \/ \E u \in UnitsInputs : ConvertUnits(u)
    \/ \E who \in {"cur", "par"} : SeismicWrite(who)

SpecSeismic == Init /\ [][NextSeismic]_vars

-----------------------------------------------------------------------------
(* Claims: Curve *)

\* all consecutive differences of b are equal
ExactRegular(b) == \A k \in 1..(Len(b) - 1) : b[k + 1] - b[k] = b[2] - b[1]

\* the Curve (or none) the last describe or write was aimed at
Target == IF clast.who = "cur" THEN cur ELSE par

\* C1 as stated: constructing a Curve with len(data) # len(basis) fails with
\* CurveError.
C1_MismatchRaisesCurveError ==
    (clast.op = "init" /\ clast.nd # clast.nb) => clast.err = "CurveError"

\* C1 amended: constructing a Curve with len(data) # len(basis) always fails
\* and returns no Curve, for every domain, mnemonic and params; the error is
\* the labelled array's ValueError when params is a dict and AttributeError
\* when params is omitted, never CurveError.
C1_MismatchFails ==
    (clast.op = "init" /\ clast.nd # clast.nb) =>
        /\ clast.err = (IF clast.pgiven THEN "ValueError" ELSE "AttributeError")
        /\ clast.ret = NoCurve
        /\ cur = NoCurve

C1_Witness ==
    /\ clast.op = "init" /\ clast.nd = 3 /\ clast.nb = 2
    /\ clast.pgiven /\ clast.err = "ValueError" /\ cur = NoCurve

\* C2: constructing a Curve from data and a basis of the same length with
\* domain, mnemonic and params left at their defaults succeeds and returns a
\* Curve with domain 'MD', mnemonic 'CURVE' and null -999.25.
C2_DefaultsConstruct ==
    (/\ clast.op = "init" /\ clast.nd = clast.nb /\ ~clast.pgiven
     /\ clast.domain = DomainDefault /\ clast.mnemonic = MnemonicDefault) =>
        /\ clast.err = "none"
        /\ clast.ret # NoCurve
        /\ clast.ret[1].meta.domain = DomainDefault
        /\ Mnemonic(clast.ret[1]) = MnemonicDefault
        /\ clast.ret[1].meta.null = NullDefault

\* C3: c[i:j] is a new Curve whose data and basis are c's data and basis at
\* positions i..j-1 (so their lengths agree) and whose metadata and mnemonic
\* are c's, also when c is itself a slice; out-of-range and negative bounds
\* select some contiguous window of c.
C3_SliceAligned ==
    clast.op = "getitem" =>
        LET p == par[1]
            c == cur[1]
            i == clast.i
            j == clast.j
            n == Len(Values(p))
            m == Len(Values(c))
        IN /\ m = Len(Basis(c))
           /\ c.meta = p.meta
           /\ Mnemonic(c) = Mnemonic(p)
           /\ (0 <= i /\ i <= j /\ j <= n) =>
                 /\ m = j - i
                 /\ Values(c) = SubSeq(Values(p), i + 1, j)
                 /\ Basis(c) = SubSeq(Basis(p), i + 1, j)
           /\ \E lo \in 0..n :
                 /\ Values(c) = SubSeq(Values(p), lo + 1, lo + m)
                 /\ Basis(c) = SubSeq(Basis(p), lo + 1, lo + m)

C3_Witness ==
    /\ clast.op = "getitem" /\ clast.i = 1 /\ clast.j = 2
    /\ par # NoCurve /\ par[1].xa.off = 1 /\ Len(Values(par[1])) = 2
    /\ Values(cur[1]) = <<Num(300)>> /\ Basis(cur[1]) = <<2 * StepDefault>>

\* the explicit coordinate array of the last from_lasio call, if any
GivenBasis == clast.op = "from_lasio" /\ clast.basis # <<>>

C5_RegularIsKept ==
    (/\ GivenBasis /\ ExactRegular(clast.basis[1])
     /\ Len(clast.basis[1]) >= 2 /\ clast.nd = clast.nb) =>
        LET b == clast.basis[1]
        IN /\ clast.err = "none"
           /\ clast.ret = cur
           /\ Basis(cur[1]) = b
           /\ Start(cur[1]) = b[1]
           /\ Stop(cur[1]) = b[Len(b)]
           /\ Step(cur[1]) = [err |-> "none", step |-> <<b[2] - b[1]>>]

C5_Witness ==
    /\ GivenBasis /\ clast.err = "none"
    /\ clast.basis[1] = <<0, StepDefault, 2 * StepDefault>>
    /\ Step(cur[1]).step = <<StepDefault>>
    /\ Stop(cur[1]) = 2 * StepDefault

RECURSIVE SumAt(_, _)
SumAt(vals, K) ==
    IF K = {} THEN 0
    ELSE LET k == CHOOSE x \in K : TRUE IN vals[k].v + SumAt(vals, K \ {k})

\* C6: on a Curve with at least one non-NaN sample describe() returns
\* samples = the number of samples, nulls = the number of NaN positions
\* (samples equal to the null sentinel are not counted), and mean, min and
\* max over the non-NaN samples; [1.0, NaN, 3.0] gives 3, 1, 2.0, 1.0, 3.0;
\* describe() changes neither the Curve nor the one it was sliced from.
C6_Describe ==
    (clast.op = "describe" /\ \E k \in 1..Len(Values(Target[1])) : ~Values(Target[1])[k].nan) =>
        LET vals == Values(Target[1])
            nans == {k \in 1..Len(vals) : vals[k].nan}
            nums == (1..Len(vals)) \ nans
            st == clast.stats
        IN /\ clast.err = "none"
           /\ st.samples = Len(vals)
           /\ st.nulls = Cardinality(nans)
           /\ ~st.mean.nan
           /\ st.mean.num * Cardinality(nums) = SumAt(vals, nums) * st.mean.den
           /\ st.mean.den > 0
           /\ \E k \in nums : st.min = vals[k]
           /\ \A k \in nums : st.min.v <= vals[k].v
           /\ \E k \in nums : st.max = vals[k]
           /\ \A k \in nums : st.max.v >= vals[k].v
           /\ (vals = <<Num(100), NaN, Num(300)>>) =>
                 /\ st.samples = 3 /\ st.nulls = 1
                 /\ st.mean.num = 200 * st.mean.den
                 /\ st.min = Num(100) /\ st.max = Num(300)
           /\ SnapAll = clast.pre

C6_Witness ==
    /\ clast.op = "describe" /\ clast.err = "none"
    /\ Values(Target[1]) = <<Num(100), NaN, Num(300)>>
    /\ clast.stats.nulls = 1 /\ clast.stats.max = Num(300)

C6_WitnessSentinel ==
    /\ clast.op = "describe" /\ clast.err = "none"
    /\ Values(Target[1]) = <<Num(100), Num(NullDefault), Num(300)>>
    /\ Target[1].meta.null = NullDefault
    /\ clast.stats.nulls = 0 /\ clast.stats.min = Num(NullDefault)

\* C10 for Curve: a write into a slice's samples leaves its parent as it was,
\* a write into the parent leaves the slice as it was, and slicing leaves the
\* parent as it was.
C10_SliceIndependent ==
    /\ (clast.op = "write" /\ cur # NoCurve /\ par # NoCurve) =>
          IF clast.who = "cur" THEN Snap(par[1]) = clast.pre.par[1]
          ELSE Snap(cur[1]) = clast.pre.cur[1]
    /\ clast.op = "getitem" => Snap(par[1]) = clast.pre.par[1]

-----------------------------------------------------------------------------
(* Claims: Seismic *)

\* the coordinates were given for every axis of the cube
AllAxesGiven == slast.op = "init" /\ Len(slast.lens) = Len(CubeShape)
LensMatch == \A k \in 1..Len(CubeShape) : slast.lens[k] = CubeShape[k]

\* C7 as stated: constructing a Seismic succeeds when every axis coordinate is
\* as long as its data dimension, and fails with SeismicError, returning no
\* Seismic, when one is not.
C7_MismatchRaisesSeismicError ==
    AllAxesGiven =>
        IF LensMatch THEN slast.err = "none" /\ slast.ret # NoSeismic
        ELSE slast.err = "SeismicError" /\ slast.ret = NoSeismic

\* C7 amended: constructing a Seismic succeeds when every axis coordinate is
\* as long as its data dimension; when one is not it fails and returns no
\* Seismic, with the labelled array's ValueError, never SeismicError.
C7_MismatchFails ==
    AllAxesGiven =>
        IF LensMatch
        THEN /\ slast.err = "none"
             /\ slast.ret = scur
             /\ Shape(scur[1].xa) = CubeShape
             /\ scur[1].units = slast.u
        ELSE /\ slast.err = "ValueError"
             /\ slast.ret = NoSeismic
             /\ scur = NoSeismic

C7_Witness ==
    /\ slast.op = "init"
    /\ slast.lens = <<2, 2, MaxSamples - 1>>
    /\ slast.err = "ValueError" /\ scur = NoSeismic

\* the value a Seismic shows at an index tuple (one index per dimension, from 0)
SAt(o, idx) ==
    LET dims == DimsOf(o.xa)
        pos(k) == IF o.xa.ax[k].int THEN o.xa.ax[k].lo
                  ELSE o.xa.ax[k].lo + idx[CHOOSE d \in 1..Len(dims) : dims[d] = k]
        RECURSIVE offset(_)
        offset(k) == IF k > Len(o.xa.ax) THEN 0
                     ELSE pos(k) * Prod(SubSeq(o.xa.base, k + 1, Len(o.xa.base)))
                          + offset(k + 1)
    IN sbuf[offset(1) + 1]

\* the index tuples of an array of the given shape
Indices(shape) ==
    {f \in [1..Len(shape) -> 0..MaxSamples] : \A d \in 1..Len(shape) : f[d] < shape[d]}

\* C8: s[item] drops exactly the axes indexed by an integer and keeps the
\* others in order with the selected part of their coordinates, so that each
\* remaining coordinate is as long as the result's dimension; its values are
\* the parent's at the selected positions and its units the parent's;
\* [:, :, k] on a cube of shape (2, 2, n) gives shape (2, 2).
C8_SliceSeismic ==
    (slast.op = "getitem" /\ slast.err = "none") =>
        LET p == spar[1]
            c == scur[1]
            ps == Shape(p.xa)
            cs == Shape(c.xa)
            pc == DimCoords(p.xa)
            cc == DimCoords(c.xa)
            sel(d) == IF d <= Len(slast.item) THEN slast.item[d] ELSE Slice(0, ps[d])
            first(d) == IF sel(d).int
                        THEN (IF sel(d).i < 0 THEN sel(d).i + ps[d] ELSE sel(d).i)
                        ELSE (IF sel(d).i < 0 THEN Max2(sel(d).i + ps[d], 0)
                              ELSE Min2(sel(d).i, ps[d]))
            kept == SelectSeq([d \in 1..Len(ps) |-> d], LAMBDA d : ~sel(d).int)
            up(idx) == [d \in 1..Len(ps) |->
                           IF sel(d).int THEN first(d)
                           ELSE first(d) + idx[CHOOSE e \in 1..Len(kept) : kept[e] = d]]
        IN /\ Len(cs) = Len(kept)
           /\ Len(cc) = Len(kept)
           /\ \A e \in 1..Len(kept) :
                 /\ cc[e].name = pc[kept[e]].name
                 /\ Len(cc[e].vals) = cs[e]
                 /\ \A q \in 1..cs[e] : cc[e].vals[q] = pc[kept[e]].vals[first(kept[e]) + q]
                 /\ (0 <= sel(kept[e]).i /\ sel(kept[e]).i <= sel(kept[e]).j
                     /\ sel(kept[e]).j <= ps[kept[e]]) =>
                        cs[e] = sel(kept[e]).j - sel(kept[e]).i
           /\ \A idx \in Indices(cs) : SAt(c, idx) = SAt(p, up(idx))
           /\ c.units = p.units
           /\ (ps = CubeShape /\ slast.item = <<Slice(0, 2), Slice(0, 2), Idx(1)>>) =>
                 cs = <<2, 2>>

C8_Witness ==
    /\ slast.op = "getitem" /\ slast.err = "none"
    /\ slast.item = <<Slice(0, 2), Slice(0, 2), Idx(1)>>
    /\ Shape(spar[1].xa) = <<2, 2, MaxSamples - 1>>
    /\ Shape(scur[1].xa) = <<2, 2>>
    /\ [e \in 1..2 |-> DimCoords(scur[1].xa)[e].name] = <<"x", "y">>
    /\ SValues(scur[1]) = <<3, 3 + MaxSamples, 3 + 2 * MaxSamples, 3 + 3 * MaxSamples>>

\* C9: set_units(u) makes the units u and leaves data and coordinates as they
\* were; a following convert_units(u) succeeds and leaves the units u and the
\* data as they were, for every Seismic and every u.
C9_SetThenConvert ==
    /\ slast.op = "set_units" =>
          /\ scur[1].units = slast.u
          /\ scur[1].xa = slast.pre.cur[1].obj.xa
          /\ SValues(scur[1]) = slast.pre.cur[1].values
    /\ (slast.op = "convert_units" /\ slast.afterSet) =>
          /\ slast.err = "none"
          /\ scur[1].units = slast.u
          /\ SValues(scur[1]) = slast.pre.cur[1].values

\* C10 for Seismic: a write into a slice's values leaves its parent as it was
\* (and the other way round), as do set_units and convert_units on the slice.
C10_SeismicSliceIndependent ==
    /\ (slast.op = "write" /\ scur # NoSeismic /\ spar # NoSeismic) =>
          IF slast.who = "cur" THEN SSnap(spar[1]) = slast.pre.par[1]
          ELSE SSnap(scur[1]) = slast.pre.cur[1]
    /\ (slast.op \in {"set_units", "convert_units"} /\ spar # NoSeismic) =>
          SSnap(spar[1]) = slast.pre.par[1]

\* set_units and convert_units on a slice leave its parent as it was
SeismicUnitsIndependent ==
    (slast.op \in {"set_units", "convert_units"} /\ spar # NoSeismic) =>
        SSnap(spar[1]) = slast.pre.par[1]

-----------------------------------------------------------------------------
(* from_lasio without a coordinate array *)

NoCoordinates == clast.op = "from_lasio" /\ clast.basis = <<>>

StartStopGiven == clast.start # <<>> /\ clast.stop # <<>>

\* (stop - start) / (data_length - 1), for data_length >= 2
DerivedStep == (clast.stop[1] - clast.start[1]) \div (clast.nd - 1)

\* C11: when from_lasio is called without a coordinate array but with start
\* and stop, and step is None or zero, the step is derived as
\* (stop - start) / (data_length - 1) and the basis has exactly data_length
\* samples starting at start, so a Curve with len(data) = len(basis) is
\* returned; when neither a basis nor both start and stop are given the call
\* fails with CurveError.
C11_StepDerived ==
    NoCoordinates =>
        IF StartStopGiven
        THEN (clast.step \in {<<>>, <<0>>} /\ clast.nd >= 2) =>
                /\ clast.err = "none"
                /\ clast.ret # NoCurve
                /\ Basis(clast.ret[1]) =
                       Linspace0(clast.start[1], clast.nd, DerivedStep)
                /\ Len(Values(clast.ret[1])) = Len(Basis(clast.ret[1]))
        ELSE clast.err = "CurveError" /\ clast.ret = NoCurve

\* the second half alone: without a basis and without both start and stop
\* from_lasio raises CurveError and returns nothing
C11_NeitherRaisesCurveError ==
    (NoCoordinates /\ ~StartStopGiven) =>
        clast.err = "CurveError" /\ clast.ret = NoCurve /\ cur = NoCurve

\* what from_lasio does with start and stop and step None or zero: step zero
\* fails in np.arange, step None counts in steps of one depth unit from start
\* up to but excluding stop, and a Curve comes back only if that count
\* happens to be the data length
C11_ArangeOnly ==
    (NoCoordinates /\ StartStopGiven /\ clast.step \in {<<>>, <<0>>}) =>
        /\ clast.step = <<0>> => clast.err = "ZeroDivisionError"
        /\ clast.step = <<>> =>
              LET cnt == CeilDiv(clast.stop[1] - clast.start[1], DepthOne)
              IN IF cnt = clast.nd
                 THEN /\ clast.err = "none"
                      /\ \A k \in 1..cnt :
                            Basis(clast.ret[1])[k] =
                                clast.start[1] + (k - 1) * DepthOne
                 ELSE clast.err = "ValueError" /\ clast.ret = NoCurve

\* three samples, start 0, stop 2 depth units, step None: np.arange gives two
\* positions and the constructor refuses them
C11_Mismatch ==
    /\ NoCoordinates /\ StartStopGiven /\ clast.step = <<>>
    /\ clast.nd = 3 /\ clast.stop = <<2 * DepthOne>>
    /\ clast.err = "ValueError"

\* two samples, same call: a Curve comes back, its step is one depth unit
\* and not the derived two
C11_NotDerived ==
    /\ NoCoordinates /\ StartStopGiven /\ clast.step = <<>>
    /\ clast.nd = 2 /\ clast.stop = <<2 * DepthOne>>
    /\ clast.err = "none"
    /\ Basis(cur[1]) = <<0, DepthOne>>
    /\ DerivedStep = 2 * DepthOne

====
